---- MODULE Spec2Model ----
(***************************************************************************)
(* Passwordless authentication and step-up transaction authorization.      *)
(*                                                                         *)
(* Two server programs are modelled, selected by the variable `server`:    *)
(*   "memory"   - src/server/index.js      (everything in process memory)  *)
(*   "database" - src/unnamed/part_007     (PostgreSQL-backed, adds the    *)
(*                /begin and /complete endpoints)                          *)
(* A request handler is split into one action per atomic segment: the      *)
(* JavaScript between two awaits runs without interruption, and every      *)
(* database query takes effect at one instant.  Segments that touch no     *)
(* modelled state are merged with the segment that follows them.           *)
(*                                                                         *)
(* Time is counted in minutes.  Money is counted in cents.                 *)
(***************************************************************************)
EXTENDS Integers, Sequences, FiniteSets, Bags, TLC

----------------------------------------------------------------------------
(* Bounds of the model *)

MaxInFlight == 2
MaxTx == 2
MaxChallenges == 2
MaxTime == 6
AmountSpread == 2
MaxCounter == 1
MaxStarted == 2
MaxUsers == 2

(* Program constants *)

PSD3_THRESHOLD == 150
OtpBase == 100000
OtpTtl == 5
ChallengeTtl == 5

(* The clock advances in steps shorter than a time-to-live. *)
TickLen == OtpTtl - 2

----------------------------------------------------------------------------
(* Value domains *)

Servers == {"memory", "database"}
TxIds == 1..MaxTx
ChallengeValues == 1..MaxChallenges
Otps == {OtpBase, OtpBase + 1}
Keys == ChallengeValues \cup Otps

(* History identities of issued challenges: a registration or authentication
   challenge is its value, the step-up challenge of transaction t is -t. *)
StepUpIdent(t) == 0 - t
Idents == ChallengeValues \cup {StepUpIdent(t) : t \in TxIds}
Emails == {"alice", "bob"}
UserIds == 1..MaxUsers
CredIds == {"k1", "k2"}
ThresholdCents == PSD3_THRESHOLD * 100
Amounts == (ThresholdCents - AmountSpread)..(ThresholdCents + AmountSpread)
TxAmounts == {ThresholdCents, ThresholdCents + 1}
UserIdInputs == {"demo", "unknown-uuid"}

(* Column defaults of the relational schema (the schema file is not part   *)
(* of the sources; the values are the ones the data model prescribes).     *)
SchemaDefaultStatus == "pending"
SchemaDefaultStepupCompleted == FALSE
SchemaDefaultIsUsed == FALSE
SchemaDefaultIsActive == TRUE

NoChallenge == [type |-> "none", uid |-> 0, email |-> "", tx |-> 0, hasExpiry |-> FALSE, expiry |-> 0, createdAt |-> 0]
NoRow == [type |-> "none", user_id |-> 0, expires_at |-> 0, is_used |-> FALSE]
NoTx == [status |-> "none", user |-> "", amount |-> 0, requires_stepup |-> FALSE, stepup_completed |-> FALSE]
(* SQL NULL in a timestamp column *)
NullTimestamp == 0 - 1

NoCred == [user_id |-> 0, counter |-> 0, is_active |-> FALSE, last_used_at |-> NullTimestamp]
NewReq == [h |-> "", pc |-> "", email |-> "", key |-> 0, cred |-> "", tx |-> 0, uid |-> 0, ctr |-> 0,
           late |-> FALSE, stale |-> FALSE, started0 |-> 0, completed0 |-> 0, creds0 |-> 0,
           reason |-> "unread", verdict |-> "none"]
NoResponse == [h |-> "none", outcome |-> "none", arrival |-> FALSE, key |-> 0, tx |-> 0, late |-> FALSE,
               requiresStepUp |-> FALSE, status |-> "none", stale |-> FALSE, uid |-> 0, cred |-> "",
               stored |-> 0, newCounter |-> 0, reported |-> FALSE, verdict |-> "none", reason |-> "none",
               started0 |-> 0, completed0 |-> 0, creds0 |-> 0,
               token |-> 0,
               conversion |-> [password |-> <<0, 1>>, passkey |-> <<0, 1>>, delta |-> <<0, 1>>,
                               improvement |-> "none"]]

(* The error messages that the taxonomy groups under ChallengeInvalid. *)
ChallengeInvalid == {"Invalid challenge", "Invalid OTP", "OTP expired", "Invalid or expired challenge"}

----------------------------------------------------------------------------
VARIABLES
  server,          \* which server program runs
  now,             \* wall clock, minutes
  challenges,      \* the in-memory Map `challenges`: key -> record
  authChallenges,  \* table auth_challenges: challenge value -> row
  users,           \* memory: Map email -> user object id; database: table users
  creds,           \* credentials: credential id -> record
  transactions,    \* transaction objects / table transactions
  analytics,       \* the funnel counters
  reqs,            \* requests in flight: a bag of continuations
  nextChal,        \* number of registration/authentication challenges issued
  nextUid,         \* number of user ids handed out
  nextTx,          \* number of transaction ids handed out
  okCount,         \* history: successful completions per issued challenge
  lastIssue,       \* history: the transaction whose OTP was issued last under a value
  stepUpVerified,  \* history: transactions whose OTP passed every check of verifyStepUp
  last,            \* the response sent by the step just taken (NoResponse if none)
  capabilities,    \* client: DeviceCapabilitiesService.capabilities
  authPreference,  \* client: DeviceCapabilitiesService.authPreference
  localStorage,    \* client: the item 'authPreference' of localStorage
  client           \* client: the call of WebAuthnService in progress

vars == <<server, now, challenges, authChallenges, users, creds, transactions,
          analytics, reqs, nextChal, nextUid, nextTx, okCount, lastIssue, stepUpVerified, last,
          capabilities, authPreference, localStorage, client>>

serverVars == <<server, now, challenges, authChallenges, users, creds, transactions,
                analytics, reqs, nextChal, nextUid, nextTx, okCount, lastIssue, stepUpVerified, last>>
clientVars == <<capabilities, authPreference, localStorage, client>>

authVars == <<authChallenges, users, creds, nextChal, nextUid>>
txVars == <<transactions, nextTx, stepUpVerified, lastIssue>>

----------------------------------------------------------------------------
(* Shared helpers *)

(* The requests in flight form a multiset of continuations. *)
InFlight == BagToSet(reqs)

AllIdle == reqs = EmptyBag

HasFreeSlot == BagCardinality(reqs) < MaxInFlight

Accept(r) == reqs (+) SetToBag({r})

Finish(r) == reqs (-) SetToBag({r})

Continue(r, r2) == (reqs (-) SetToBag({r})) (+) SetToBag({r2})

(* A response sent by the first segment of a handler (the request was read *)
(* in the same step), by a later segment, and the note that a request was  *)
(* read and its handler is now waiting.                                    *)
Response(h, outcome, key, tx, late) ==
  [NoResponse EXCEPT !.h = h, !.outcome = outcome, !.arrival = TRUE, !.key = key, !.tx = tx, !.late = late]

LateResponse(h, outcome, key, tx, late) == [Response(h, outcome, key, tx, late) EXCEPT !.arrival = FALSE]

Accepted(h, key, tx, late) == Response(h, "accepted", key, tx, late)

(* Mutant: the counter is written back from a value read when the server  *)
(* started, so that increments of other requests are lost.                 *)
BumpFromStaleRead(counter) == [analytics EXCEPT ![counter] = 0 + 1]

(* counter++ on the analytics object: read and write in one synchronous    *)
(* statement, which no other handler can interleave with.                  *)
Bump(counter) == [analytics EXCEPT ![counter] = @ + 1]

RecordSuccess(ident) == [okCount EXCEPT ![ident] = @ + 1]

(* A step-up request that arrives after the OTP it presents has been used. *)
LateOtp(otp) == lastIssue[otp] # 0 /\ okCount[StepUpIdent(lastIssue[otp])] > 0

(* History: the OTP is presented later than its issue time plus its       *)
(* time-to-live.                                                           *)
OtpStale(otp) == challenges[otp].type = "stepup" /\ now > challenges[otp].createdAt + OtpTtl

(* Map.get with the type test every completion handler applies. *)
ChallengeOfType(key, type) == challenges[key].type = type

(* Mutant: the challenge is left in the Map. *)
DeleteChallengeKept(key) == challenges

(* challenges.delete(key) *)
DeleteChallenge(key) == [challenges EXCEPT ![key] = NoChallenge]

----------------------------------------------------------------------------
(* Step-up engine: POST /api/transactions *)

(* Mutant: the comparison made inclusive. *)
RequiresStepupInclusive(amount) == amount >= ThresholdCents

RequiresStepup(amount) == amount > ThresholdCents

(* index.js: if (transaction.amount > 150), the amount counted in cents *)
ExceedsThreshold(amount) == amount > 150 * 100

NewTransaction(user, amount) ==
  [status |-> SchemaDefaultStatus, user |-> user, amount |-> amount,
   requires_stepup |-> RequiresStepup(amount),
   stepup_completed |-> SchemaDefaultStepupCompleted]

StepUpChallenge(tx) ==
  [type |-> "stepup", uid |-> 0, email |-> "", tx |-> tx, hasExpiry |-> TRUE, expiry |-> now + OtpTtl,
   createdAt |-> now]

(* Mutant: completing a transaction also clears its step-up requirement. *)
UpdateStatusClearsRequirement(id, status) ==
  [transactions EXCEPT ![id] = IF @.status = "none" THEN @
                               ELSE [@ EXCEPT !.status = status, !.requires_stepup = FALSE]]

UpdateStatus(id, status) ==
  [transactions EXCEPT ![id] = IF @.status = "none" THEN @ ELSE [@ EXCEPT !.status = status]]

MarkStepupCompleted(id) ==
  [transactions EXCEPT ![id] = IF @.status = "none" THEN @ ELSE [@ EXCEPT !.stepup_completed = TRUE]]

(* index.js: the whole handler runs without an await. *)
SubmitTransactionMemory(user, amount, otp) ==
  /\ server = "memory"
  /\ nextTx < MaxTx
  /\ LET id == nextTx + 1
         t == [status |-> "pending", user |-> user, amount |-> amount,
               requires_stepup |-> ExceedsThreshold(amount), stepup_completed |-> FALSE]
     IN /\ nextTx' = id
        /\ IF ExceedsThreshold(amount)
             THEN /\ analytics' = Bump("triggered")
                  /\ challenges' = [challenges EXCEPT ![otp] = StepUpChallenge(id)]
                  /\ lastIssue' = [lastIssue EXCEPT ![otp] = id]
                  /\ transactions' = [transactions EXCEPT ![id] = t]
                  /\ last' = [Response("transactions", "ok", otp, id, FALSE)
                                EXCEPT !.requiresStepUp = TRUE, !.status = "pending"]
             ELSE /\ transactions' = [transactions EXCEPT ![id] = [t EXCEPT !.status = "completed"]]
                  /\ last' = [Response("transactions", "ok", 0, id, FALSE)
                                EXCEPT !.status = "completed"]
                  /\ UNCHANGED <<analytics, challenges, lastIssue>>
  /\ UNCHANGED <<server, now, reqs, stepUpVerified, okCount>>
  /\ UNCHANGED authVars
  /\ UNCHANGED clientVars

(* Both servers: a missing field or (part_007) an unknown user id. *)
SubmitTransactionRejected(userId, amount) ==
  /\ \/ amount = 0
     \/ server = "database" /\ userId = "unknown-uuid"
  /\ last' = Response("transactions",
                      IF amount = 0 THEN "Amount, description, and userId are required"
                                    ELSE "User not found", 0, 0, FALSE)
  /\ UNCHANGED <<server, now, challenges, analytics, reqs, okCount>>
  /\ UNCHANGED authVars
  /\ UNCHANGED txVars
  /\ UNCHANGED clientVars

(* part_007: Transaction.create, the INSERT. *)
SubmitTransactionCreate(user, amount) ==
  /\ server = "database"
  /\ HasFreeSlot
  /\ nextTx < MaxTx
  /\ LET id == nextTx + 1
     IN /\ nextTx' = id
        /\ transactions' = [transactions EXCEPT ![id] = NewTransaction(user, amount)]
        /\ reqs' = Accept([NewReq EXCEPT !.h = "transactions", !.pc = "created", !.tx = id])
        /\ last' = Accepted("transactions", 0, id, FALSE)
  /\ UNCHANGED <<server, now, challenges, analytics, okCount, stepUpVerified, lastIssue>>
  /\ UNCHANGED authVars
  /\ UNCHANGED clientVars

(* part_007: the branch on transaction.requires_stepup of the row returned. *)
SubmitTransactionIssueOtp(r, otp) ==
  /\ r.h = "transactions" /\ r.pc = "created"
  /\ transactions[r.tx].requires_stepup
  /\ analytics' = Bump("triggered")
  /\ challenges' = [challenges EXCEPT ![otp] = StepUpChallenge(r.tx)]
  /\ lastIssue' = [lastIssue EXCEPT ![otp] = r.tx]
  /\ last' = [LateResponse("transactions", "ok", otp, r.tx, FALSE)
                EXCEPT !.requiresStepUp = TRUE, !.status = SchemaDefaultStatus]
  /\ reqs' = Finish(r)
  /\ UNCHANGED <<server, now, okCount, transactions, nextTx, stepUpVerified>>
  /\ UNCHANGED authVars
  /\ UNCHANGED clientVars

(* part_007: Transaction.updateStatus(id, "completed"); the response carries *)
(* the row as it was returned by the INSERT.                                *)
SubmitTransactionComplete(r) ==
  /\ r.h = "transactions" /\ r.pc = "created"
  /\ ~transactions[r.tx].requires_stepup
  /\ transactions' = UpdateStatus(r.tx, "completed")
  /\ last' = [LateResponse("transactions", "ok", 0, r.tx, FALSE)
                EXCEPT !.status = SchemaDefaultStatus]
  /\ reqs' = Finish(r)
  /\ UNCHANGED <<server, now, challenges, analytics, okCount, nextTx, stepUpVerified, lastIssue>>
  /\ UNCHANGED authVars
  /\ UNCHANGED clientVars

----------------------------------------------------------------------------
(* Step-up engine: POST /api/transactions/stepup *)

(* History: the OTP presented is the live, unexpired step-up challenge of  *)
(* the transaction named in the request.                                   *)
OtpValidFor(otp, transactionId) ==
  /\ challenges[otp].type = "stepup"
  /\ challenges[otp].tx = transactionId
  /\ now <= challenges[otp].expiry

NoteVerified(otp, transactionId) ==
  IF OtpValidFor(otp, transactionId) THEN stepUpVerified \cup {transactionId} ELSE stepUpVerified

(* History: which of the reasons applies to the OTP a step-up call        *)
(* presents for the transaction it names.                                  *)
StepUpReason(otp, transactionId) ==
  IF challenges[otp].type = "none" THEN (IF LateOtp(otp) THEN "consumed" ELSE "not found")
  ELSE IF challenges[otp].type # "stepup" THEN "wrong kind"
  ELSE IF challenges[otp].tx = transactionId /\ now > challenges[otp].expiry THEN "expired"
  ELSE "none"

(* Mutant: the expiry test left out. *)
StepUpOutcomeNoExpiry(otp, transactionId) ==
  IF ~ChallengeOfType(otp, "stepup") THEN "Invalid OTP"
  ELSE IF challenges[otp].tx # transactionId THEN "Transaction ID mismatch"
  ELSE "ok"

(* Mutant: the transaction id test left out. *)
StepUpOutcomeNoMismatch(otp, transactionId) ==
  IF ~ChallengeOfType(otp, "stepup") THEN "Invalid OTP"
  ELSE IF now > challenges[otp].expiry THEN "OTP expired"
  ELSE "ok"

(* The checks at the head of the handler, in the order of the code. *)
StepUpOutcome(otp, transactionId) ==
  IF ~ChallengeOfType(otp, "stepup") THEN "Invalid OTP"
  ELSE IF challenges[otp].tx # transactionId THEN "Transaction ID mismatch"
  ELSE IF now > challenges[otp].expiry THEN "OTP expired"
  ELSE "ok"

(* What the failing checks do to the Map: only the expired branch deletes. *)
StepUpRejectChallenges(otp, outcome) ==
  IF outcome = "OTP expired" THEN DeleteChallenge(otp) ELSE challenges

(* index.js: no await between the lookup and the delete. *)
VerifyStepUpMemory(otp, transactionId) ==
  /\ server = "memory"
  /\ LET outcome == StepUpOutcome(otp, transactionId)
         late == LateOtp(otp)
     IN IF outcome = "ok"
          THEN /\ transactions' = UpdateStatus(challenges[otp].tx, "completed")
               /\ analytics' = Bump("completed")
               /\ challenges' = DeleteChallenge(otp)
               /\ okCount' = RecordSuccess(StepUpIdent(challenges[otp].tx))
               /\ last' = [Response("stepup", "ok", otp, transactionId, late)
                             EXCEPT !.status = "completed", !.stale = OtpStale(otp),
                                    !.reason = StepUpReason(otp, transactionId)]
          ELSE /\ challenges' = StepUpRejectChallenges(otp, outcome)
               /\ last' = [Response("stepup", outcome, otp, transactionId, late)
                             EXCEPT !.stale = OtpStale(otp),
                                    !.reason = StepUpReason(otp, transactionId)]
               /\ UNCHANGED <<transactions, analytics, okCount>>
  /\ stepUpVerified' = NoteVerified(otp, transactionId)
  /\ UNCHANGED <<server, now, reqs, nextTx, lastIssue>>
  /\ UNCHANGED authVars
  /\ UNCHANGED clientVars

(* part_007: the synchronous head of the handler. *)
VerifyStepUpCheck(otp, transactionId) ==
  /\ server = "database"
  /\ HasFreeSlot
  /\ LET outcome == StepUpOutcome(otp, transactionId)
         late == LateOtp(otp)
     IN IF outcome = "ok"
          THEN /\ reqs' = Accept([NewReq EXCEPT !.h = "stepup", !.pc = "checked", !.key = otp,
                                                  !.tx = challenges[otp].tx, !.late = late,
                                                  !.stale = OtpStale(otp)])
               /\ last' = [Accepted("stepup", otp, transactionId, late) EXCEPT !.stale = OtpStale(otp),
                                    !.reason = StepUpReason(otp, transactionId)]
               /\ UNCHANGED challenges
          ELSE /\ challenges' = StepUpRejectChallenges(otp, outcome)
               /\ last' = [Response("stepup", outcome, otp, transactionId, late)
                             EXCEPT !.stale = OtpStale(otp),
                                    !.reason = StepUpReason(otp, transactionId)]
               /\ UNCHANGED reqs
  /\ stepUpVerified' = NoteVerified(otp, transactionId)
  /\ UNCHANGED <<server, now, analytics, okCount, transactions, nextTx, lastIssue>>
  /\ UNCHANGED authVars
  /\ UNCHANGED clientVars

(* part_007: await Transaction.updateStatus(transaction.id, "completed") *)
VerifyStepUpUpdateStatus(r) ==
  /\ r.h = "stepup" /\ r.pc = "checked"
  /\ transactions' = UpdateStatus(r.tx, "completed")
  /\ reqs' = Continue(r, [r EXCEPT !.pc = "updated"])
  /\ UNCHANGED <<server, now, challenges, analytics, okCount, nextTx, stepUpVerified, lastIssue>>
  /\ last' = NoResponse
  /\ UNCHANGED authVars
  /\ UNCHANGED clientVars

(* part_007: await Transaction.markStepupCompleted(transaction.id) *)
VerifyStepUpMark(r) ==
  /\ r.h = "stepup" /\ r.pc = "updated"
  /\ transactions' = MarkStepupCompleted(r.tx)
  /\ reqs' = Continue(r, [r EXCEPT !.pc = "marked"])
  /\ UNCHANGED <<server, now, challenges, analytics, okCount, nextTx, stepUpVerified, lastIssue>>
  /\ last' = NoResponse
  /\ UNCHANGED authVars
  /\ UNCHANGED clientVars

(* part_007: the counter, the delete and the response. *)
VerifyStepUpFinish(r) ==
  /\ r.h = "stepup" /\ r.pc = "marked"
  /\ analytics' = Bump("completed")
  /\ challenges' = DeleteChallenge(r.key)
  /\ okCount' = RecordSuccess(StepUpIdent(r.tx))
  /\ last' = [LateResponse("stepup", "ok", r.key, r.tx, r.late)
                EXCEPT !.status = "completed", !.stale = r.stale]
  /\ reqs' = Finish(r)
  /\ UNCHANGED <<server, now>>
  /\ UNCHANGED authVars
  /\ UNCHANGED txVars
  /\ UNCHANGED clientVars

----------------------------------------------------------------------------
(* WebAuthn ceremonies: shared pieces *)

(* What verifyRegistrationResponse / verifyAuthenticationResponse can do:   *)
(* resolve with verified = true, resolve with verified = false, or throw.   *)
VerifierResults == {"verified", "rejected", "throws"}

Counters == 0..MaxCounter

LoginCompletions == {"login/verify", "login/complete"}
RegistrationStarts == {"register/options", "register/begin"}
RegistrationCompletions == {"register/verify", "register/complete"}

ActiveCreds(uid) == Cardinality({k \in CredIds : creds[k].user_id = uid /\ creds[k].is_active})

(* challenges.set(options.challenge, { user, type, createdAt }) *)
CeremonyChallenge(type, uid, email) ==
  [type |-> type, uid |-> uid, email |-> email, tx |-> 0, hasExpiry |-> FALSE, expiry |-> 0,
   createdAt |-> now]

(* INSERT INTO auth_challenges ... NOW() + INTERVAL '5 minutes' *)
ChallengeRow(type, uid) ==
  [type |-> type, user_id |-> uid, expires_at |-> now + ChallengeTtl, is_used |-> SchemaDefaultIsUsed]

(* SELECT ... WHERE challenge_type = type AND is_used = false AND expires_at > NOW() *)
LiveRow(key, type) ==
  /\ authChallenges[key].type = type
  /\ ~authChallenges[key].is_used
  /\ authChallenges[key].expires_at > now

(* UPDATE auth_challenges SET is_used = true WHERE id = challengeRow.id *)
MarkUsed(key) == [authChallenges EXCEPT ![key] = [@ EXCEPT !.is_used = TRUE]]

(* WebAuthnCredential.create, and the push onto user.credentials *)
CreateCredential(k, uid, counter) ==
  [creds EXCEPT ![k] = [user_id |-> uid, counter |-> counter, is_active |-> SchemaDefaultIsActive,
                        last_used_at |-> NullTimestamp]]

(* Mutant: the test of is_active left out of the query. *)
FindByCredentialIdAnyState(k) == creds[k].user_id # 0

(* WebAuthnCredential.findByCredentialId *)
FindByCredentialId(k) == creds[k].user_id # 0 /\ creds[k].is_active

(* WebAuthnCredential.updateCounter: UPDATE ... WHERE credential_id = $1 *)
UpdateCounter(credentialId, newCounter) ==
  [k \in CredIds |-> IF k = credentialId /\ creds[k].user_id # 0 /\ creds[k].is_active
                       THEN [creds[k] EXCEPT !.counter = newCounter, !.last_used_at = now]
                       ELSE creds[k]]

(* The primary key (a uuid) of the row that holds credential k. *)
RowId(k) == "row-" \o k

(* History: the request presents a challenge that was already completed,   *)
(* or presents it later than its issue time plus the time-to-live.         *)
UsedBefore(key) == okCount[key] > 0

MapStale(key) == challenges[key].type # "none" /\ now > challenges[key].createdAt + ChallengeTtl

RowStale(key) == authChallenges[key].type # "none" /\ now > authChallenges[key].expires_at

(* History: which of the reasons not found / already consumed / wrong     *)
(* kind / expired applies to the challenge a completion call presents.     *)
(* An entry of the Map: *)
MapReason(key, type) ==
  IF challenges[key].type = "none" THEN (IF UsedBefore(key) THEN "consumed" ELSE "not found")
  ELSE IF challenges[key].type # type THEN "wrong kind"
  ELSE IF MapStale(key) THEN "expired"
  ELSE "none"

(* A row of auth_challenges: *)
RowReason(key, type) ==
  IF authChallenges[key].type = "none" THEN "not found"
  ELSE IF authChallenges[key].type # type THEN "wrong kind"
  ELSE IF authChallenges[key].is_used THEN "consumed"
  ELSE IF ~(authChallenges[key].expires_at > now) THEN "expired"
  ELSE "none"

(* The response to request r, sent by a later segment of its handler. *)
ReplyTo(r, outcome) ==
  [NoResponse EXCEPT !.h = r.h, !.outcome = outcome, !.key = r.key, !.tx = r.tx, !.late = r.late,
                     !.stale = r.stale, !.uid = r.uid, !.cred = r.cred, !.stored = r.ctr,
                     !.started0 = r.started0, !.completed0 = r.completed0, !.creds0 = r.creds0,
                     !.reason = r.reason, !.verdict = r.verdict]

(* A success response with the bearer token jwt.sign makes for the user   *)
(* id it is given.                                                         *)
WithToken(response, userId) == [response EXCEPT !.token = userId]

(* The note that the verifier accepted the response of request r. *)
Verified(r, k, newCounter) ==
  [ReplyTo(r, "verified") EXCEPT !.cred = k, !.newCounter = newCounter, !.reported = TRUE]

CanIssue == nextChal < MaxChallenges

(* Mutant: a response the verifier did not verify is accepted too. *)
RegistrationVerifiedLax(v) == v # "throws"

(* if (verification.verified) after verifyRegistrationResponse resolved *)
RegistrationVerified(v) == v = "verified"

(* Mutant: a response the verifier did not verify is accepted too. *)
AuthenticationVerifiedLax(v) == v # "throws"

(* if (verification.verified) after verifyAuthenticationResponse resolved *)
AuthenticationVerified(v) == v = "verified"

(* History: the response, with the verifier's answer it follows from. *)
After(v, response) == [response EXCEPT !.verdict = v]

----------------------------------------------------------------------------
(* POST /api/auth/register/options *)

(* index.js: the middleware counts the request, then the handler runs. *)
RegisterOptionsMemory(email) ==
  /\ server = "memory"
  /\ analytics.started < MaxStarted
  /\ analytics' = Bump("started")
  /\ IF users[email] # 0
       THEN /\ last' = [Response("register/options", "User already exists", 0, 0, FALSE)
                          EXCEPT !.started0 = analytics.started]
            /\ UNCHANGED <<challenges, nextChal, nextUid>>
       ELSE /\ CanIssue /\ nextUid < MaxUsers
            /\ nextChal' = nextChal + 1
            /\ nextUid' = nextUid + 1
            /\ challenges' = [challenges EXCEPT ![nextChal + 1] =
                                CeremonyChallenge("registration", nextUid + 1, email)]
            /\ last' = [Response("register/options", "ok", nextChal + 1, 0, FALSE)
                          EXCEPT !.started0 = analytics.started, !.uid = nextUid + 1]
  /\ UNCHANGED <<server, now, authChallenges, users, creds, reqs, okCount>>
  /\ UNCHANGED txVars
  /\ UNCHANGED clientVars

(* part_007: the middleware, then User.findByEmail. *)
RegisterOptionsFind(email) ==
  /\ server = "database"
  /\ HasFreeSlot
  /\ analytics.started < MaxStarted
  /\ analytics' = Bump("started")
  /\ IF users[email] # 0
       THEN /\ last' = [Response("register/options", "User already exists", 0, 0, FALSE)
                          EXCEPT !.started0 = analytics.started]
            /\ UNCHANGED reqs
       ELSE /\ CanIssue /\ nextUid < MaxUsers
            /\ reqs' = Accept([NewReq EXCEPT !.h = "register/options", !.pc = "absent",
                                              !.email = email, !.started0 = analytics.started])
            /\ last' = [Accepted("register/options", 0, 0, FALSE) EXCEPT !.started0 = analytics.started]
  /\ UNCHANGED <<server, now, challenges, okCount>>
  /\ UNCHANGED authVars
  /\ UNCHANGED txVars
  /\ UNCHANGED clientVars

(* part_007: User.create, then challenges.set.  A second INSERT of the     *)
(* same email is refused by the table and the handler answers 500.         *)
RegisterOptionsCreate(r) ==
  /\ r.h = "register/options" /\ r.pc = "absent"
  /\ IF users[r.email] # 0
       THEN /\ last' = ReplyTo(r, "Failed to generate registration options")
            /\ UNCHANGED <<users, nextUid, challenges, nextChal>>
       ELSE /\ CanIssue /\ nextUid < MaxUsers
            /\ nextUid' = nextUid + 1
            /\ users' = [users EXCEPT ![r.email] = nextUid + 1]
            /\ nextChal' = nextChal + 1
            /\ challenges' = [challenges EXCEPT ![nextChal + 1] =
                                CeremonyChallenge("registration", nextUid + 1, r.email)]
            /\ last' = [ReplyTo(r, "ok") EXCEPT !.key = nextChal + 1, !.uid = nextUid + 1]
  /\ reqs' = Finish(r)
  /\ UNCHANGED <<server, now, authChallenges, creds, analytics, okCount>>
  /\ UNCHANGED txVars
  /\ UNCHANGED clientVars

----------------------------------------------------------------------------
(* POST /api/auth/register/verify *)

(* Both servers: challenges.get and the type test, before the verifier is  *)
(* awaited.                                                                *)
RegisterVerifyCheck(key) ==
  /\ HasFreeSlot
  /\ IF ChallengeOfType(key, "registration")
       THEN /\ reqs' = Accept([NewReq EXCEPT !.h = "register/verify", !.pc = "checked", !.key = key,
                                 !.reason = MapReason(key, "registration"),
                                 !.uid = challenges[key].uid, !.email = challenges[key].email,
                                 !.late = UsedBefore(key), !.stale = MapStale(key),
                                 !.completed0 = analytics.completed_signup,
                                 !.creds0 = ActiveCreds(challenges[key].uid)])
            /\ last' = [Accepted("register/verify", key, 0, UsedBefore(key)) EXCEPT !.stale = MapStale(key), !.reason = MapReason(key, "registration")]
       ELSE /\ last' = [Response("register/verify", "Invalid challenge", key, 0, UsedBefore(key))
                          EXCEPT !.stale = MapStale(key), !.reason = MapReason(key, "registration")]
            /\ UNCHANGED reqs
  /\ UNCHANGED <<server, now, challenges, analytics, okCount>>
  /\ UNCHANGED authVars
  /\ UNCHANGED txVars
  /\ UNCHANGED clientVars

(* index.js: everything after the verifier resolved. *)
RegisterVerifyMemoryFinish(r, v, k, counter) ==
  /\ server = "memory"
  /\ r.h = "register/verify" /\ r.pc = "checked"
  /\ IF RegistrationVerified(v)
       THEN /\ creds[k].user_id = 0
            /\ creds' = CreateCredential(k, r.uid, counter)
            /\ users' = [users EXCEPT ![r.email] = r.uid]
            /\ challenges' = DeleteChallenge(r.key)
            /\ analytics' = Bump("completed_signup")
            /\ okCount' = RecordSuccess(r.key)
            /\ last' = After(v, WithToken([ReplyTo(r, "ok") EXCEPT !.cred = k, !.newCounter = counter,
                                                    !.reported = TRUE], r.uid))
       ELSE /\ last' = After(v, ReplyTo(r, IF v = "rejected" THEN "Registration verification failed"
                                                             ELSE "Failed to verify registration"))
            /\ UNCHANGED <<creds, users, challenges, analytics, okCount>>
  /\ reqs' = Finish(r)
  /\ UNCHANGED <<server, now, authChallenges, nextChal, nextUid>>
  /\ UNCHANGED txVars
  /\ UNCHANGED clientVars

(* part_007: the verifier's answer and WebAuthnCredential.create. *)
RegisterVerifyCreate(r, v, k, counter) ==
  /\ server = "database"
  /\ r.h = "register/verify" /\ r.pc = "checked"
  /\ IF RegistrationVerified(v)
       THEN /\ creds[k].user_id = 0
            /\ creds' = CreateCredential(k, r.uid, counter)
            /\ reqs' = Continue(r, [r EXCEPT !.pc = "created", !.cred = k, !.verdict = v])
            /\ last' = After(v, Verified(r, k, counter))
       ELSE /\ last' = After(v, ReplyTo(r, IF v = "rejected" THEN "Registration verification failed"
                                                             ELSE "Failed to verify registration"))
            /\ reqs' = Finish(r)
            /\ UNCHANGED creds
  /\ UNCHANGED <<server, now, challenges, authChallenges, users, analytics, nextChal, nextUid, okCount>>
  /\ UNCHANGED txVars
  /\ UNCHANGED clientVars

(* part_007: the delete, the counter and the response. *)
RegisterVerifyFinish(r) ==
  /\ r.h = "register/verify" /\ r.pc = "created"
  /\ challenges' = DeleteChallenge(r.key)
  /\ analytics' = Bump("completed_signup")
  /\ okCount' = RecordSuccess(r.key)
  /\ last' = WithToken(ReplyTo(r, "ok"), r.uid)
  /\ reqs' = Finish(r)
  /\ UNCHANGED <<server, now>>
  /\ UNCHANGED authVars
  /\ UNCHANGED txVars
  /\ UNCHANGED clientVars

----------------------------------------------------------------------------
(* POST /api/auth/login/options and /api/auth/login/verify *)

(* Both servers: the user is looked up by email and a challenge is stored. *)
LoginOptions(email) ==
  /\ IF users[email] = 0
       THEN /\ last' = Response("login/options", "User not found", 0, 0, FALSE)
            /\ UNCHANGED <<challenges, nextChal>>
       ELSE /\ CanIssue
            /\ nextChal' = nextChal + 1
            /\ challenges' = [challenges EXCEPT ![nextChal + 1] =
                                CeremonyChallenge("authentication", users[email], email)]
            /\ last' = [Response("login/options", "ok", nextChal + 1, 0, FALSE) EXCEPT !.uid = users[email]]
  /\ UNCHANGED <<server, now, authChallenges, users, creds, nextUid, analytics, reqs, okCount>>
  /\ UNCHANGED txVars
  /\ UNCHANGED clientVars

(* index.js: challenges.get, the type test and user.credentials.find. *)
LoginVerifyMemoryCheck(key, k) ==
  /\ server = "memory"
  /\ HasFreeSlot
  /\ LET c == challenges[key]
         reply(outcome) == [Response("login/verify", outcome, key, 0, UsedBefore(key))
                              EXCEPT !.stale = MapStale(key), !.reason = MapReason(key, "authentication"), !.cred = k]
     IN IF ~ChallengeOfType(key, "authentication")
          THEN /\ last' = reply("Invalid challenge")
               /\ UNCHANGED reqs
          ELSE IF creds[k].user_id # c.uid
                 THEN /\ last' = reply("Credential not found")
                      /\ UNCHANGED reqs
                 ELSE /\ reqs' = Accept([NewReq EXCEPT !.h = "login/verify", !.pc = "found", !.key = key,
                                 !.reason = MapReason(key, "authentication"),
                                           !.uid = c.uid, !.email = c.email, !.cred = k,
                                           !.ctr = creds[k].counter,
                                           !.late = UsedBefore(key), !.stale = MapStale(key)])
                      /\ last' = reply("accepted")
  /\ UNCHANGED <<server, now, challenges, analytics, okCount>>
  /\ UNCHANGED authVars
  /\ UNCHANGED txVars
  /\ UNCHANGED clientVars

(* index.js: everything after the verifier resolved. *)
LoginVerifyMemoryFinish(r, v, newCounter) ==
  /\ server = "memory"
  /\ r.h = "login/verify" /\ r.pc = "found"
  /\ IF AuthenticationVerified(v)
       THEN /\ creds' = [creds EXCEPT ![r.cred] = [@ EXCEPT !.counter = newCounter]]
            /\ users' = [users EXCEPT ![r.email] = r.uid]
            /\ challenges' = DeleteChallenge(r.key)
            /\ okCount' = RecordSuccess(r.key)
            /\ last' = After(v, WithToken([ReplyTo(r, "ok") EXCEPT !.newCounter = newCounter,
                                                    !.reported = TRUE], r.uid))
       ELSE /\ last' = After(v, ReplyTo(r, IF v = "rejected" THEN "Authentication verification failed"
                                                             ELSE "Failed to verify authentication"))
            /\ UNCHANGED <<creds, users, challenges, okCount>>
  /\ reqs' = Finish(r)
  /\ UNCHANGED <<server, now, authChallenges, analytics, nextChal, nextUid>>
  /\ UNCHANGED txVars
  /\ UNCHANGED clientVars

(* part_007: challenges.get and the type test. *)
LoginVerifyCheck(key, k) ==
  /\ server = "database"
  /\ HasFreeSlot
  /\ IF ChallengeOfType(key, "authentication")
       THEN /\ reqs' = Accept([NewReq EXCEPT !.h = "login/verify", !.pc = "checked", !.key = key,
                                 !.reason = MapReason(key, "authentication"),
                                 !.uid = challenges[key].uid, !.email = challenges[key].email,
                                 !.cred = k, !.late = UsedBefore(key), !.stale = MapStale(key)])
            /\ last' = [Accepted("login/verify", key, 0, UsedBefore(key))
                          EXCEPT !.stale = MapStale(key), !.reason = MapReason(key, "authentication"), !.cred = k]
       ELSE /\ last' = [Response("login/verify", "Invalid challenge", key, 0, UsedBefore(key))
                          EXCEPT !.stale = MapStale(key), !.reason = MapReason(key, "authentication"), !.cred = k]
            /\ UNCHANGED reqs
  /\ UNCHANGED <<server, now, challenges, analytics, okCount>>
  /\ UNCHANGED authVars
  /\ UNCHANGED txVars
  /\ UNCHANGED clientVars

(* part_007: WebAuthnCredential.findByCredentialId and the owner test. *)
LoginVerifyFind(r) ==
  /\ server = "database"
  /\ r.h = "login/verify" /\ r.pc = "checked"
  /\ IF ~FindByCredentialId(r.cred) \/ creds[r.cred].user_id # r.uid
       THEN /\ last' = ReplyTo(r, "Credential not found")
            /\ reqs' = Finish(r)
       ELSE /\ reqs' = Continue(r, [r EXCEPT !.pc = "found", !.ctr = creds[r.cred].counter])
            /\ last' = NoResponse
  /\ UNCHANGED <<server, now, challenges, analytics, okCount>>
  /\ UNCHANGED authVars
  /\ UNCHANGED txVars
  /\ UNCHANGED clientVars

(* part_007: the verifier's answer and updateCounter(userCredential.id, ...): *)
(* the argument is the primary key of the row, the statement compares it   *)
(* with the column credential_id.                                          *)
LoginVerifyUpdate(r, v, newCounter) ==
  /\ server = "database"
  /\ r.h = "login/verify" /\ r.pc = "found"
  /\ IF AuthenticationVerified(v)
       THEN /\ creds' = UpdateCounter(RowId(r.cred), newCounter)
            /\ reqs' = Continue(r, [r EXCEPT !.pc = "updated", !.verdict = v])
            /\ last' = After(v, Verified(r, r.cred, newCounter))
       ELSE /\ last' = After(v, ReplyTo(r, IF v = "rejected" THEN "Authentication verification failed"
                                                             ELSE "Failed to verify authentication"))
            /\ reqs' = Finish(r)
            /\ UNCHANGED creds
  /\ UNCHANGED <<server, now, challenges, authChallenges, users, analytics, nextChal, nextUid, okCount>>
  /\ UNCHANGED txVars
  /\ UNCHANGED clientVars

(* part_007: the delete and the response. *)
LoginVerifyFinish(r) ==
  /\ r.h = "login/verify" /\ r.pc = "updated"
  /\ challenges' = DeleteChallenge(r.key)
  /\ okCount' = RecordSuccess(r.key)
  /\ last' = WithToken(ReplyTo(r, "ok"), r.uid)
  /\ reqs' = Finish(r)
  /\ UNCHANGED <<server, now, analytics>>
  /\ UNCHANGED authVars
  /\ UNCHANGED txVars
  /\ UNCHANGED clientVars

----------------------------------------------------------------------------
(* POST /api/auth/register/begin and /api/auth/register/complete (part_007) *)

(* User.findByEmail; for a known user the challenge row is inserted. *)
RegisterBeginFind(email) ==
  /\ server = "database"
  /\ HasFreeSlot
  /\ CanIssue
  /\ IF users[email] # 0
       THEN /\ nextChal' = nextChal + 1
            /\ authChallenges' = [authChallenges EXCEPT ![nextChal + 1] =
                                    ChallengeRow("registration", users[email])]
            /\ last' = [Response("register/begin", "ok", nextChal + 1, 0, FALSE)
                          EXCEPT !.started0 = analytics.started, !.uid = users[email]]
            /\ UNCHANGED reqs
       ELSE /\ nextUid < MaxUsers
            /\ reqs' = Accept([NewReq EXCEPT !.h = "register/begin", !.pc = "absent", !.email = email,
                                              !.started0 = analytics.started])
            /\ last' = [Accepted("register/begin", 0, 0, FALSE) EXCEPT !.started0 = analytics.started]
            /\ UNCHANGED <<nextChal, authChallenges>>
  /\ UNCHANGED <<server, now, challenges, users, creds, nextUid, analytics, okCount>>
  /\ UNCHANGED txVars
  /\ UNCHANGED clientVars

(* User.create, then the INSERT of the challenge row. *)
RegisterBeginCreate(r) ==
  /\ r.h = "register/begin" /\ r.pc = "absent"
  /\ IF users[r.email] # 0
       THEN /\ last' = ReplyTo(r, "Failed to begin registration")
            /\ UNCHANGED <<users, nextUid, authChallenges, nextChal>>
       ELSE /\ CanIssue /\ nextUid < MaxUsers
            /\ nextUid' = nextUid + 1
            /\ users' = [users EXCEPT ![r.email] = nextUid + 1]
            /\ nextChal' = nextChal + 1
            /\ authChallenges' = [authChallenges EXCEPT ![nextChal + 1] =
                                    ChallengeRow("registration", nextUid + 1)]
            /\ last' = [ReplyTo(r, "ok") EXCEPT !.key = nextChal + 1, !.uid = nextUid + 1]
  /\ reqs' = Finish(r)
  /\ UNCHANGED <<server, now, challenges, creds, analytics, okCount>>
  /\ UNCHANGED txVars
  /\ UNCHANGED clientVars

(* The SELECT of the live challenge row. *)
RegisterCompleteSelect(key) ==
  /\ server = "database"
  /\ HasFreeSlot
  /\ IF LiveRow(key, "registration")
       THEN /\ reqs' = Accept([NewReq EXCEPT !.h = "register/complete", !.pc = "selected", !.key = key,
                                 !.reason = RowReason(key, "registration"),
                                 !.uid = authChallenges[key].user_id,
                                 !.late = UsedBefore(key), !.stale = RowStale(key),
                                 !.completed0 = analytics.completed_signup,
                                 !.creds0 = ActiveCreds(authChallenges[key].user_id)])
            /\ last' = [Accepted("register/complete", key, 0, UsedBefore(key)) EXCEPT !.stale = RowStale(key), !.reason = RowReason(key, "registration")]
       ELSE /\ last' = [Response("register/complete", "Invalid or expired challenge", key, 0, UsedBefore(key))
                          EXCEPT !.stale = RowStale(key), !.reason = RowReason(key, "registration")]
            /\ UNCHANGED reqs
  /\ UNCHANGED <<server, now, challenges, analytics, okCount>>
  /\ UNCHANGED authVars
  /\ UNCHANGED txVars
  /\ UNCHANGED clientVars

(* The verifier's answer and WebAuthnCredential.create. *)
RegisterCompleteCreate(r, v, k, counter) ==
  /\ r.h = "register/complete" /\ r.pc = "selected"
  /\ IF RegistrationVerified(v)
       THEN /\ creds[k].user_id = 0
            /\ creds' = CreateCredential(k, r.uid, counter)
            /\ reqs' = Continue(r, [r EXCEPT !.pc = "created", !.cred = k, !.verdict = v])
            /\ last' = After(v, Verified(r, k, counter))
       ELSE /\ last' = After(v, ReplyTo(r, IF v = "rejected" THEN "Registration verification failed"
                                                             ELSE "Failed to complete registration"))
            /\ reqs' = Finish(r)
            /\ UNCHANGED creds
  /\ UNCHANGED <<server, now, challenges, authChallenges, users, analytics, nextChal, nextUid, okCount>>
  /\ UNCHANGED txVars
  /\ UNCHANGED clientVars

(* The UPDATE that marks the row used, User.findById and the response. *)
RegisterCompleteFinish(r) ==
  /\ r.h = "register/complete" /\ r.pc = "created"
  /\ authChallenges' = MarkUsed(r.key)
  /\ okCount' = RecordSuccess(r.key)
  /\ last' = WithToken(ReplyTo(r, "ok"), r.uid)
  /\ reqs' = Finish(r)
  /\ UNCHANGED <<server, now, challenges, users, creds, nextChal, nextUid, analytics>>
  /\ UNCHANGED txVars
  /\ UNCHANGED clientVars

----------------------------------------------------------------------------
(* POST /api/auth/login/begin and /api/auth/login/complete (part_007) *)

(* With a username the row names the user; without one its user_id is NULL. *)
LoginBegin(email) ==
  /\ server = "database"
  /\ IF email # "" /\ users[email] = 0
       THEN /\ last' = Response("login/begin", "User not found", 0, 0, FALSE)
            /\ UNCHANGED <<authChallenges, nextChal>>
       ELSE /\ CanIssue
            /\ nextChal' = nextChal + 1
            /\ authChallenges' = [authChallenges EXCEPT ![nextChal + 1] =
                                    ChallengeRow("authentication", IF email = "" THEN 0 ELSE users[email])]
            /\ last' = [Response("login/begin", "ok", nextChal + 1, 0, FALSE)
                          EXCEPT !.uid = IF email = "" THEN 0 ELSE users[email]]
  /\ UNCHANGED <<server, now, challenges, users, creds, nextUid, analytics, reqs, okCount>>
  /\ UNCHANGED txVars
  /\ UNCHANGED clientVars

(* The SELECT of the live challenge row. *)
LoginCompleteSelect(key, k) ==
  /\ server = "database"
  /\ HasFreeSlot
  /\ IF LiveRow(key, "authentication")
       THEN /\ reqs' = Accept([NewReq EXCEPT !.h = "login/complete", !.pc = "selected", !.key = key,
                                 !.reason = RowReason(key, "authentication"),
                                 !.uid = authChallenges[key].user_id, !.cred = k,
                                 !.late = UsedBefore(key), !.stale = RowStale(key)])
            /\ last' = [Accepted("login/complete", key, 0, UsedBefore(key))
                          EXCEPT !.stale = RowStale(key), !.reason = RowReason(key, "authentication"), !.cred = k]
       ELSE /\ last' = [Response("login/complete", "Invalid or expired challenge", key, 0, UsedBefore(key))
                          EXCEPT !.stale = RowStale(key), !.reason = RowReason(key, "authentication"), !.cred = k]
            /\ UNCHANGED reqs
  /\ UNCHANGED <<server, now, challenges, analytics, okCount>>
  /\ UNCHANGED authVars
  /\ UNCHANGED txVars
  /\ UNCHANGED clientVars

(* WebAuthnCredential.findByCredentialId *)
LoginCompleteFind(r) ==
  /\ r.h = "login/complete" /\ r.pc = "selected"
  /\ IF ~FindByCredentialId(r.cred)
       THEN /\ last' = ReplyTo(r, "Credential not found")
            /\ reqs' = Finish(r)
       ELSE /\ reqs' = Continue(r, [r EXCEPT !.pc = "found", !.ctr = creds[r.cred].counter])
            /\ last' = NoResponse
  /\ UNCHANGED <<server, now, challenges, analytics, okCount>>
  /\ UNCHANGED authVars
  /\ UNCHANGED txVars
  /\ UNCHANGED clientVars

(* The verifier's answer and updateCounter(stored.credential_id, newCounter). *)
LoginCompleteUpdate(r, v, newCounter) ==
  /\ r.h = "login/complete" /\ r.pc = "found"
  /\ IF AuthenticationVerified(v)
       THEN /\ creds' = UpdateCounter(r.cred, newCounter)
            /\ reqs' = Continue(r, [r EXCEPT !.pc = "updated", !.verdict = v])
            /\ last' = After(v, Verified(r, r.cred, newCounter))
       ELSE /\ last' = After(v, ReplyTo(r, IF v = "rejected" THEN "Authentication verification failed"
                                                             ELSE "Failed to complete login"))
            /\ reqs' = Finish(r)
            /\ UNCHANGED creds
  /\ UNCHANGED <<server, now, challenges, authChallenges, users, analytics, nextChal, nextUid, okCount>>
  /\ UNCHANGED txVars
  /\ UNCHANGED clientVars

(* User.updateLastLogin, the UPDATE that marks the row used, and the response. *)
LoginCompleteFinish(r) ==
  /\ r.h = "login/complete" /\ r.pc = "updated"
  /\ authChallenges' = MarkUsed(r.key)
  /\ okCount' = RecordSuccess(r.key)
  /\ last' = WithToken(ReplyTo(r, "ok"), creds[r.cred].user_id)
  /\ reqs' = Finish(r)
  /\ UNCHANGED <<server, now, challenges, users, creds, nextChal, nextUid, analytics>>
  /\ UNCHANGED txVars
  /\ UNCHANGED clientVars

----------------------------------------------------------------------------
(* WebAuthnCredential.deactivate (part of the credential repository of the *)
(* database server): UPDATE ... SET is_active = false WHERE credential_id  *)
Deactivate(credentialId) ==
  /\ server = "database"
  /\ creds[credentialId].user_id # 0
  /\ creds[credentialId].is_active
  /\ creds' = [creds EXCEPT ![credentialId] = [@ EXCEPT !.is_active = FALSE]]
  /\ last' = NoResponse
  /\ UNCHANGED <<server, now, challenges, authChallenges, users, nextChal, nextUid, analytics, reqs, okCount>>
  /\ UNCHANGED txVars
  /\ UNCHANGED clientVars

----------------------------------------------------------------------------
(* GET /api/analytics/conversion *)

(* A number the handler computes, kept exact as <<numerator, denominator>>; *)
(* a denominator 0 stands for the NaN or Infinity of a division by zero.   *)
(* With counters this small the double arithmetic of the code is exact in  *)
(* every comparison made here.                                             *)

(* Mutant: the division without the test of started. *)
ConversionUnguarded(completed, started) == <<completed * 100, started>>

(* started > 0 ? (completed / started) * 100 : 0 *)
Conversion(completed, started) ==
  IF started > 0 THEN <<completed * 100, started>> ELSE <<0, 1>>

(* passkeyConversion - passwordConversion *)
ConversionDelta(passkeyConversion, passwordConversion) ==
  <<passkeyConversion[1] * passwordConversion[2] - passwordConversion[1] * passkeyConversion[2],
    passkeyConversion[2] * passwordConversion[2]>>

(* Both servers: the rates, their difference and the sentence chosen by    *)
(* conversionDelta > 0.                                                    *)
GetConversion ==
  /\ LET passwordConversion == Conversion(analytics.password_completed, analytics.password_started)
         passkeyConversion == Conversion(analytics.completed_signup, analytics.started)
         conversionDelta == ConversionDelta(passkeyConversion, passwordConversion)
     IN last' = [Response("analytics/conversion", "ok", 0, 0, FALSE) EXCEPT !.conversion =
                   [password |-> passwordConversion, passkey |-> passkeyConversion,
                    delta |-> conversionDelta,
                    improvement |-> IF conversionDelta[2] > 0 /\ conversionDelta[1] > 0
                                      THEN "Passkeys improve conversion"
                                      ELSE "Passkeys reduce conversion"]]
  /\ UNCHANGED <<server, now, challenges, analytics, reqs, okCount>>
  /\ UNCHANGED authVars
  /\ UNCHANGED txVars
  /\ UNCHANGED clientVars

----------------------------------------------------------------------------
(* The hourly clean-up and the clock *)

Expired(c) == c.hasExpiry /\ now > c.expiry

Sweep ==
  /\ \E k \in Keys : challenges[k].type # "none" /\ Expired(challenges[k])
  /\ challenges' = [k \in Keys |-> IF Expired(challenges[k]) THEN NoChallenge ELSE challenges[k]]
  /\ UNCHANGED <<server, now, analytics, reqs, okCount>>
  /\ last' = NoResponse
  /\ UNCHANGED authVars
  /\ UNCHANGED txVars
  /\ UNCHANGED clientVars

Tick ==
  /\ now + TickLen <= MaxTime
  /\ now' = now + TickLen
  /\ UNCHANGED <<server, challenges, analytics, reqs, okCount>>
  /\ last' = NoResponse
  /\ UNCHANGED authVars
  /\ UNCHANGED txVars
  /\ UNCHANGED clientVars

----------------------------------------------------------------------------
(* Client: DeviceCapabilitiesService and WebAuthnService *)

(* JavaScript null: no preference cached or stored, no fallback method.    *)
Null == "null"

Methods == {"device", "pin", "both"}

Operations == {"register", "authenticate"}

(* How an attempt (begin, the browser ceremony, complete) can end. *)
Outcomes == {"success", "begin fails", "ceremony throws", "complete fails"}

(* The constructor's values. *)
NoCapabilities ==
  [webauthnSupported |-> FALSE, platformAuthenticator |-> FALSE, userVerification |-> FALSE,
   secureContext |-> FALSE, httpsOrLocalhost |-> FALSE, availableMethods |-> {}]

(* The ways an attempt fails. *)
Failures == Outcomes \ {"success"}

(* An Error object: its name and its message, the message as the sequence  *)
(* of the pieces it is put together from.                                  *)
NoError == [name |-> "none", message |-> << >>]

(* What an attempt that fails throws: new Error(beginResponse.error), the  *)
(* error the browser's ceremony rejects with, or                           *)
(* new Error(completeResponse.error).                                      *)
ErrorOf(outcome) ==
  [name |-> IF outcome = "ceremony throws" THEN "NotAllowedError" ELSE "Error",
   message |-> <<outcome>>]

(* The error tryFallback... throws when there is no fallback method. *)
NoFallbackError(op, originalError) ==
  [name |-> "Error",
   message |-> <<IF op = "register" THEN "Registration failed: " ELSE "Authentication failed: ">>
                 \o originalError.message \o <<". No fallback method available.">>]

(* The error the catch block of tryFallback... throws. *)
FallbackError(op, error) ==
  [name |-> "Error",
   message |-> <<IF op = "register" THEN "Fallback registration failed: "
                                    ELSE "Fallback authentication failed: ">>
                 \o error.message]

(* beginRegistration: the JSON body of the POST to /api/auth/register/begin. *)
(* A field the client does not put in is undefined when the server reads   *)
(* it.                                                                     *)
BeginRegistrationBody(authMethod) ==
  [authMethod |-> authMethod, attachmentPreference |-> "undefined"]

(* /api/auth/register/begin: the authenticatorAttachment of the options,   *)
(* from the field attachmentPreference of the body.                        *)
AuthenticatorAttachment(body) ==
  IF body.attachmentPreference = "platform" THEN "platform"
  ELSE IF body.attachmentPreference = "cross-platform" THEN "cross-platform"
  ELSE "undefined"

(* The attachment of the options a begin request of the call gets back. *)
OptionsAttachment(op, authMethod) ==
  IF op = "register" THEN AuthenticatorAttachment(BeginRegistrationBody(authMethod)) ELSE "none"

(* The call in progress.  History: api, probe and detected record what the *)
(* detection of this call found, ceremonies and fallbacks count the begin  *)
(* requests and the fallback attempts of this call, primary and fallback   *)
(* tell how far each attempt is.                                           *)
NoCall == [pc |-> "idle", op |-> "", method |-> Null, originalPreference |-> Null,
           fallbackMethod |-> Null, before |-> Null, usedFallback |-> FALSE,
           api |-> FALSE, probe |-> "none", detected |-> FALSE,
           ceremonies |-> 0, fallbacks |-> 0, primary |-> "none", fallback |-> "none",
           originalError |-> NoError, fallbackError |-> NoError, error |-> NoError,
           attachment |-> "none", primaryMethod |-> Null]

(* What PublicKeyCredential.isUserVerifyingPlatformAuthenticatorAvailable  *)
(* does: resolve true, resolve false, reject, or not exist at all.         *)
ProbeResults == {"available", "unavailable", "rejects", "missing"}

DetermineAvailableMethods(platformAuthenticator) ==
  IF platformAuthenticator THEN {"device", "pin", "both"} ELSE {"pin"}

(* detectCapabilities: the fields are assigned one after the other; a     *)
(* probe that rejects leaves the later ones as they were, a probe that is  *)
(* skipped leaves platformAuthenticator as it was.  isSecureContext and    *)
(* httpsOrLocalhost are what window.isSecureContext and window.location    *)
(* give.                                                                   *)
DetectCapabilities(apiExists, probe, isSecureContext, httpsOrLocalhost) ==
  IF apiExists /\ probe = "rejects"
    THEN [capabilities EXCEPT !.webauthnSupported = TRUE]
    ELSE LET platformAuthenticator == IF apiExists /\ probe \in {"available", "unavailable"}
                                        THEN probe = "available"
                                        ELSE capabilities.platformAuthenticator
         IN [webauthnSupported |-> apiExists, platformAuthenticator |-> platformAuthenticator,
             userVerification |-> platformAuthenticator,
             secureContext |-> isSecureContext, httpsOrLocalhost |-> httpsOrLocalhost,
             availableMethods |-> DetermineAvailableMethods(platformAuthenticator)]

(* getAuthPreference: the cached value, else the stored one, else 'both'. *)
GetAuthPreference ==
  IF authPreference # Null THEN authPreference
  ELSE IF localStorage # Null THEN localStorage
  ELSE "both"

(* Mutant: 'pin' falls back to 'device' whatever the capabilities. *)
GetFallbackMethodUnconditional(primaryMethod) ==
  IF primaryMethod = "device" THEN "pin"
  ELSE IF primaryMethod = "pin" THEN "device"
  ELSE Null

GetFallbackMethod(primaryMethod) ==
  IF primaryMethod = "device" THEN "pin"
  ELSE IF primaryMethod = "pin" THEN (IF capabilities.platformAuthenticator THEN "device" ELSE Null)
  ELSE Null

(* setAuthPreference applied to a cached and a stored value: the pair      *)
(* <<authPreference, localStorage item>> it leaves.                        *)
SetAuthPreference(preference, cached, stored) ==
  IF preference \in capabilities.availableMethods THEN <<preference, preference>> ELSE <<cached, stored>>

(* Mutant: a failed fallback attempt is handled like a failed first one. *)
AfterFallbackFailureRetried == "primary"

(* Where a failed fallback attempt leaves the call: the catch block of     *)
(* tryFallback... throws, and nothing catches that error.                  *)
AfterFallbackFailure == "threw"

(* register / authenticate up to the first begin request:                  *)
(* detectCapabilities, then the method: authenticate takes its argument    *)
(* authMethod if one is given, and getAuthPreference otherwise; register   *)
(* always asks getAuthPreference.  A browser that has the ceremony API     *)
(* keeps it, and the probe is skipped when the API does not exist.  A      *)
(* secure context is a page served over https or from localhost.           *)
CallStarts(op, authMethod, apiExists, probe, isSecureContext, httpsOrLocalhost) ==
  /\ client.pc \in {"idle", "returned", "threw"}
  /\ op = "register" => authMethod = Null
  /\ capabilities.webauthnSupported => apiExists
  /\ ~apiExists => probe = "missing"
  /\ probe = "missing" => ~capabilities.platformAuthenticator
  /\ isSecureContext => httpsOrLocalhost
  /\ capabilities' = DetectCapabilities(apiExists, probe, isSecureContext, httpsOrLocalhost)
  /\ authPreference' = IF authMethod # Null THEN authPreference ELSE GetAuthPreference
  /\ client' = [NoCall EXCEPT !.pc = "primary", !.op = op, !.before = localStorage,
                               !.method = IF authMethod # Null THEN authMethod ELSE GetAuthPreference,
                               !.api = apiExists, !.probe = probe,
                               !.detected = ~(apiExists /\ probe = "rejects"),
                               !.ceremonies = 1, !.primary = "running",
                               !.primaryMethod = IF authMethod # Null THEN authMethod ELSE GetAuthPreference,
                               !.attachment = OptionsAttachment(op,
                                   IF authMethod # Null THEN authMethod ELSE GetAuthPreference)]
  /\ UNCHANGED localStorage
  /\ UNCHANGED serverVars

(* The first attempt succeeds and the call returns its result. *)
PrimarySucceeds ==
  /\ client.pc = "primary"
  /\ client' = [client EXCEPT !.pc = "returned", !.primary = "succeeded"]
  /\ UNCHANGED <<capabilities, authPreference, localStorage>>
  /\ UNCHANGED serverVars

(* tryFallbackRegistration / tryFallbackAuthentication, entered from the   *)
(* catch block of the first attempt, up to the retry's first request.      *)
TryFallback(outcome) ==
  /\ client.pc = "primary"
  /\ LET fallbackMethod == GetFallbackMethod(GetAuthPreference)
         originalPreference == GetAuthPreference
         set == SetAuthPreference(fallbackMethod, originalPreference, localStorage)
     IN IF fallbackMethod = Null \/ fallbackMethod \notin capabilities.availableMethods
          THEN /\ client' = [client EXCEPT !.pc = "threw", !.primary = "failed",
                                           !.originalPreference = originalPreference,
                                           !.fallbackMethod = fallbackMethod,
                                           !.originalError = ErrorOf(outcome),
                                           !.error = NoFallbackError(client.op, ErrorOf(outcome))]
               /\ authPreference' = GetAuthPreference
               /\ UNCHANGED localStorage
          ELSE /\ client' = [client EXCEPT !.pc = "fallback", !.originalPreference = originalPreference,
                                           !.fallbackMethod = fallbackMethod, !.method = fallbackMethod,
                                           !.usedFallback = TRUE, !.primary = "failed",
                                           !.fallback = "running", !.fallbacks = @ + 1,
                                           !.ceremonies = @ + 1,
                                           !.originalError = ErrorOf(outcome),
                                           !.attachment = OptionsAttachment(client.op, fallbackMethod)]
               /\ authPreference' = set[1]
               /\ localStorage' = set[2]
  /\ UNCHANGED capabilities
  /\ UNCHANGED serverVars

(* The retry ends.  Only when completeRegistration / completeAuthentication *)
(* was reached does setAuthPreference(originalPreference) run; the catch   *)
(* block sets the preference to what getAuthPreference returns.            *)
FallbackEnds(outcome) ==
  /\ client.pc = "fallback"
  /\ LET restored == IF outcome \in {"success", "complete fails"}
                       THEN SetAuthPreference(client.originalPreference, authPreference, localStorage)
                       ELSE <<authPreference, localStorage>>
         caught == IF outcome = "success"
                     THEN restored
                     ELSE SetAuthPreference(IF restored[1] # Null THEN restored[1] ELSE "both",
                                            restored[1], restored[2])
     IN /\ authPreference' = caught[1]
        /\ localStorage' = caught[2]
  /\ client' = [client EXCEPT !.pc = IF outcome = "success" THEN "returned" ELSE AfterFallbackFailure,
                               !.fallback = IF outcome = "success" THEN "succeeded" ELSE "failed",
                               !.fallbackError = IF outcome = "success" THEN NoError ELSE ErrorOf(outcome),
                               !.error = IF outcome = "success" THEN NoError
                                         ELSE FallbackError(client.op, ErrorOf(outcome))]
  /\ UNCHANGED capabilities
  /\ UNCHANGED serverVars

(* WebAuthnService.setAuthPreference, called by the settings page. *)
UserSetsPreference(preference) ==
  /\ client.pc \in {"idle", "returned", "threw"}
  /\ LET set == SetAuthPreference(preference, authPreference, localStorage)
     IN /\ authPreference' = set[1]
        /\ localStorage' = set[2]
  /\ client' = NoCall
  /\ UNCHANGED capabilities
  /\ UNCHANGED serverVars

(* The page is loaded again: the services are constructed anew, the        *)
(* localStorage item stays.                                                *)
Reload ==
  /\ client.pc \in {"returned", "threw"}
  /\ capabilities' = NoCapabilities
  /\ authPreference' = Null
  /\ client' = NoCall
  /\ UNCHANGED localStorage
  /\ UNCHANGED serverVars

----------------------------------------------------------------------------
(* Initial state: a freshly started server *)

InitServer ==
  /\ now = 0
  /\ challenges = [k \in Keys |-> NoChallenge]
  /\ authChallenges = [c \in ChallengeValues |-> NoRow]
  /\ users = [e \in Emails |-> 0]
  /\ creds = [c \in CredIds |-> NoCred]
  /\ transactions = [t \in TxIds |-> NoTx]
  /\ analytics = [started |-> 0, completed_signup |-> 0, triggered |-> 0, completed |-> 0,
                  password_started |-> 0, password_completed |-> 0]
  /\ reqs = EmptyBag
  /\ nextChal = 0
  /\ nextUid = 0
  /\ nextTx = 0
  /\ okCount = [k \in Idents |-> 0]
  /\ lastIssue = [o \in Otps |-> 0]
  /\ stepUpVerified = {}
  /\ last = NoResponse

Init ==
  /\ server \in Servers
  /\ InitServer
  /\ capabilities = NoCapabilities
  /\ authPreference = Null
  /\ localStorage = Null
  /\ client = NoCall

(* A browser that opens the application for the first time. *)
InitClient ==
  /\ server = "database"
  /\ InitServer
  /\ capabilities = NoCapabilities
  /\ authPreference = Null
  /\ localStorage = Null
  /\ client = NoCall

----------------------------------------------------------------------------
(* Step-up engine with interleaved requests *)

NextTx ==
  \/ \E a \in TxAmounts, o \in Otps : SubmitTransactionMemory("alice", a, o)
  \/ \E u \in UserIdInputs, a \in TxAmounts \cup {0} : SubmitTransactionRejected(u, a)
  \/ \E a \in TxAmounts : SubmitTransactionCreate("alice", a)
  \/ \E r \in InFlight, o \in Otps : SubmitTransactionIssueOtp(r, o)
  \/ \E r \in InFlight : SubmitTransactionComplete(r)
  \/ \E o \in Otps, t \in TxIds : VerifyStepUpMemory(o, t)
  \/ \E o \in Otps, t \in TxIds : VerifyStepUpCheck(o, t)
  \/ \E r \in InFlight : VerifyStepUpUpdateStatus(r)
  \/ \E r \in InFlight : VerifyStepUpMark(r)
  \/ \E r \in InFlight : VerifyStepUpFinish(r)
  \/ Sweep
  \/ Tick

SpecTx == Init /\ [][NextTx]_vars

(* Submission alone, over the whole range of amounts around the threshold *)

NextThreshold ==
  \/ \E a \in Amounts, o \in Otps : SubmitTransactionMemory("alice", a, o)
  \/ \E a \in Amounts : SubmitTransactionCreate("alice", a)
  \/ \E r \in InFlight, o \in Otps : SubmitTransactionIssueOtp(r, o)
  \/ \E r \in InFlight : SubmitTransactionComplete(r)

SpecThreshold == Init /\ [][NextThreshold]_vars

(* The client alone; what the server answers is left open *)

NextClient ==
  \/ \E op \in Operations, m \in Methods \cup {Null}, a \in BOOLEAN, p \in ProbeResults,
          s \in BOOLEAN, h \in BOOLEAN :
       CallStarts(op, m, a, p, s, h)
  \/ PrimarySucceeds
  \/ \E o \in Failures : TryFallback(o)
  \/ \E o \in Outcomes : FallbackEnds(o)
  \/ \E m \in Methods : UserSetsPreference(m)
  \/ Reload

SpecClient == InitClient /\ [][NextClient]_vars

(* Every endpoint, one request at a time: a request is read only when no   *)
(* handler is waiting.  The ceremonies and the step-up engine share no     *)
(* state but the clock, so a run exercises one of the two: ceremony        *)
(* requests are read while no transaction exists, transaction requests     *)
(* while no ceremony was started.  One account registers and signs in; a   *)
(* new credential starts with signature counter 0.                         *)

NextSeq ==
  \/ AllIdle /\ nextTx = 0 /\ RegisterOptionsMemory("alice")
  \/ AllIdle /\ nextTx = 0 /\ RegisterOptionsFind("alice")
  \/ \E r \in InFlight : RegisterOptionsCreate(r)
  \/ AllIdle /\ nextTx = 0 /\ \E c \in ChallengeValues : RegisterVerifyCheck(c)
  \/ \E r \in InFlight, v \in VerifierResults, k \in CredIds : RegisterVerifyMemoryFinish(r, v, k, 0)
  \/ \E r \in InFlight, v \in VerifierResults, k \in CredIds : RegisterVerifyCreate(r, v, k, 0)
  \/ \E r \in InFlight : RegisterVerifyFinish(r)
  \/ AllIdle /\ nextTx = 0 /\ LoginOptions("alice")
  \/ AllIdle /\ nextTx = 0 /\ \E c \in ChallengeValues, k \in CredIds : LoginVerifyMemoryCheck(c, k)
  \/ \E r \in InFlight, v \in VerifierResults, n \in Counters : LoginVerifyMemoryFinish(r, v, n)
  \/ AllIdle /\ nextTx = 0 /\ \E c \in ChallengeValues, k \in CredIds : LoginVerifyCheck(c, k)
  \/ \E r \in InFlight : LoginVerifyFind(r)
  \/ \E r \in InFlight, v \in VerifierResults, n \in Counters : LoginVerifyUpdate(r, v, n)
  \/ \E r \in InFlight : LoginVerifyFinish(r)
  \/ AllIdle /\ nextTx = 0 /\ RegisterBeginFind("alice")
  \/ \E r \in InFlight : RegisterBeginCreate(r)
  \/ AllIdle /\ nextTx = 0 /\ \E c \in ChallengeValues : RegisterCompleteSelect(c)
  \/ \E r \in InFlight, v \in VerifierResults, k \in CredIds : RegisterCompleteCreate(r, v, k, 0)
  \/ \E r \in InFlight : RegisterCompleteFinish(r)
  \/ AllIdle /\ nextTx = 0 /\ \E e \in {"alice", ""} : LoginBegin(e)
  \/ AllIdle /\ nextTx = 0 /\ \E c \in ChallengeValues, k \in CredIds : LoginCompleteSelect(c, k)
  \/ \E r \in InFlight : LoginCompleteFind(r)
  \/ \E r \in InFlight, v \in VerifierResults, n \in Counters : LoginCompleteUpdate(r, v, n)
  \/ \E r \in InFlight : LoginCompleteFinish(r)
  \/ AllIdle /\ nextTx = 0 /\ \E k \in CredIds : Deactivate(k)
  \/ AllIdle /\ nextChal = 0 /\ analytics.started = 0
       /\ \E a \in TxAmounts, o \in Otps : SubmitTransactionMemory("alice", a, o)
  \/ AllIdle /\ nextChal = 0 /\ analytics.started = 0
       /\ \E a \in TxAmounts : SubmitTransactionCreate("alice", a)
  \/ \E r \in InFlight, o \in Otps : SubmitTransactionIssueOtp(r, o)
  \/ \E r \in InFlight : SubmitTransactionComplete(r)
  \/ AllIdle /\ \E o \in Otps, t \in TxIds : VerifyStepUpMemory(o, t)
  \/ AllIdle /\ \E o \in Otps, t \in TxIds : VerifyStepUpCheck(o, t)
  \/ \E r \in InFlight : VerifyStepUpUpdateStatus(r)
  \/ \E r \in InFlight : VerifyStepUpMark(r)
  \/ \E r \in InFlight : VerifyStepUpFinish(r)
  \/ Sweep
  \/ Tick

SpecSeq == Init /\ [][NextSeq]_vars

(* The same, with the clock advancing and the hourly clean-up running     *)
(* whenever it has something to remove.                                    *)
SpecSeqFair == SpecSeq /\ WF_vars(Tick) /\ WF_vars(Sweep)

(* Sign-in with interleaved requests.  The account alice has registered    *)
(* the credential k1 (signature counter 0) in an earlier ceremony whose    *)
(* challenge is gone from the store; the challenge values counted here are *)
(* those of the sign-in ceremonies.                                        *)

InitLogin ==
  /\ server \in Servers
  /\ now = 0
  /\ challenges = [k \in Keys |-> NoChallenge]
  /\ authChallenges = [c \in ChallengeValues |-> NoRow]
  /\ users = [e \in Emails |-> IF e = "alice" THEN 1 ELSE 0]
  /\ creds = [c \in CredIds |-> IF c = "k1"
                                  THEN [user_id |-> 1, counter |-> 0, is_active |-> SchemaDefaultIsActive,
                                        last_used_at |-> NullTimestamp]
                                  ELSE NoCred]
  /\ transactions = [t \in TxIds |-> NoTx]
  /\ analytics = [started |-> 1, completed_signup |-> 1, triggered |-> 0, completed |-> 0,
                  password_started |-> 0, password_completed |-> 0]
  /\ reqs = EmptyBag
  /\ nextChal = 0
  /\ nextUid = 1
  /\ nextTx = 0
  /\ okCount = [k \in Idents |-> 0]
  /\ lastIssue = [o \in Otps |-> 0]
  /\ stepUpVerified = {}
  /\ last = NoResponse
  /\ capabilities = NoCapabilities
  /\ authPreference = Null
  /\ localStorage = Null
  /\ client = NoCall

(* The counters an authenticator can report: one more value than a         *)
(* credential can be registered with.                                      *)
LoginCounters == 0..(MaxCounter + 1)

(* The verifier is given the stored counter the handler read and resolves  *)
(* with verified = true only for a counter above it, or when both are 0.   *)
VerifierAccepts(v, storedCounter, newCounter) ==
  v = "verified" => (newCounter > storedCounter \/ (newCounter = 0 /\ storedCounter = 0))

NextLogin ==
  \/ LoginOptions("alice")
  \/ \E c \in ChallengeValues, k \in CredIds : LoginVerifyMemoryCheck(c, k)
  \/ \E r \in InFlight, v \in VerifierResults, n \in LoginCounters :
       VerifierAccepts(v, r.ctr, n) /\ LoginVerifyMemoryFinish(r, v, n)
  \/ \E c \in ChallengeValues, k \in CredIds : LoginVerifyCheck(c, k)
  \/ \E r \in InFlight : LoginVerifyFind(r)
  \/ \E r \in InFlight, v \in VerifierResults, n \in LoginCounters :
       VerifierAccepts(v, r.ctr, n) /\ LoginVerifyUpdate(r, v, n)
  \/ \E r \in InFlight : LoginVerifyFinish(r)
  \/ \E e \in {"alice", ""} : LoginBegin(e)
  \/ \E c \in ChallengeValues, k \in CredIds : LoginCompleteSelect(c, k)
  \/ \E r \in InFlight : LoginCompleteFind(r)
  \/ \E r \in InFlight, v \in VerifierResults, n \in LoginCounters :
       VerifierAccepts(v, r.ctr, n) /\ LoginCompleteUpdate(r, v, n)
  \/ \E r \in InFlight : LoginCompleteFinish(r)

SpecLogin == InitLogin /\ [][NextLogin]_vars

(* Sign-in with two registered accounts: alice owns the credential k1, bob *)
(* the credential k2.  The challenges are issued for alice; any of the two *)
(* credentials can be presented with them.                                 *)

InitScope ==
  /\ server \in Servers
  /\ now = 0
  /\ challenges = [k \in Keys |-> NoChallenge]
  /\ authChallenges = [c \in ChallengeValues |-> NoRow]
  /\ users = [e \in Emails |-> IF e = "alice" THEN 1 ELSE 2]
  /\ creds = [c \in CredIds |-> [user_id |-> IF c = "k1" THEN 1 ELSE 2, counter |-> 0,
                                  is_active |-> SchemaDefaultIsActive,
                                  last_used_at |-> NullTimestamp]]
  /\ transactions = [t \in TxIds |-> NoTx]
  /\ analytics = [started |-> 2, completed_signup |-> 2, triggered |-> 0, completed |-> 0,
                  password_started |-> 0, password_completed |-> 0]
  /\ reqs = EmptyBag
  /\ nextChal = 0
  /\ nextUid = 2
  /\ nextTx = 0
  /\ okCount = [k \in Idents |-> 0]
  /\ lastIssue = [o \in Otps |-> 0]
  /\ stepUpVerified = {}
  /\ last = NoResponse
  /\ capabilities = NoCapabilities
  /\ authPreference = Null
  /\ localStorage = Null
  /\ client = NoCall

SpecScope == InitScope /\ [][NextLogin]_vars

(* Registration through /api/auth/register/options and /verify with the   *)
(* requests of several clients in flight together.                         *)

NextRegister ==
  \/ RegisterOptionsMemory("alice")
  \/ RegisterOptionsFind("alice")
  \/ \E r \in InFlight : RegisterOptionsCreate(r)
  \/ \E c \in ChallengeValues : RegisterVerifyCheck(c)
  \/ \E r \in InFlight, v \in VerifierResults, k \in CredIds : RegisterVerifyMemoryFinish(r, v, k, 0)
  \/ \E r \in InFlight, v \in VerifierResults, k \in CredIds : RegisterVerifyCreate(r, v, k, 0)
  \/ \E r \in InFlight : RegisterVerifyFinish(r)

SpecRegister == Init /\ [][NextRegister]_vars

(* The conversion report over every value the four signup counters can    *)
(* hold: a stage is completed at most as often as it was started.          *)

InitConversion ==
  /\ server \in Servers
  /\ now = 0
  /\ challenges = [k \in Keys |-> NoChallenge]
  /\ authChallenges = [c \in ChallengeValues |-> NoRow]
  /\ users = [e \in Emails |-> 0]
  /\ creds = [c \in CredIds |-> NoCred]
  /\ transactions = [t \in TxIds |-> NoTx]
  /\ \E s \in 0..MaxStarted, c \in 0..MaxStarted, ps \in 0..MaxStarted, pc \in 0..MaxStarted :
       /\ c <= s /\ pc <= ps
       /\ analytics = [started |-> s, completed_signup |-> c, triggered |-> 0, completed |-> 0,
                       password_started |-> ps, password_completed |-> pc]
  /\ reqs = EmptyBag
  /\ nextChal = 0
  /\ nextUid = 0
  /\ nextTx = 0
  /\ okCount = [k \in Idents |-> 0]
  /\ lastIssue = [o \in Otps |-> 0]
  /\ stepUpVerified = {}
  /\ last = NoResponse
  /\ capabilities = NoCapabilities
  /\ authPreference = Null
  /\ localStorage = Null
  /\ client = NoCall

NextConversion == GetConversion

SpecConversion == InitConversion /\ [][NextConversion]_vars

----------------------------------------------------------------------------
(* Properties of the step-up engine *)

(* C2: of the requests that present the same challenge, at most one       *)
(* succeeds, however their handlers interleave at the awaits.              *)
AtMostOneSuccess == \A i \in Idents : okCount[i] <= 1

(* C4: a transaction that requires step-up is pending when submission      *)
(* answers, and is completed only if an unexpired OTP issued for that very *)
(* transaction was presented together with its id.                         *)
StepUpGate ==
  /\ \A t \in TxIds :
       (transactions[t].requires_stepup /\ transactions[t].status = "completed")
         => t \in stepUpVerified
  /\ (last.h = "transactions" /\ last.outcome = "ok" /\ last.requiresStepUp)
       => transactions[last.tx].status = "pending"

StepUpGateWitness ==
  \E t \in TxIds : transactions[t].requires_stepup /\ transactions[t].status = "completed"

(* C5: step-up is required exactly for amounts strictly above 150.00, so   *)
(* 15000 cents does not require it and 15001 cents does.                   *)
ThresholdBoundary ==
  /\ \A t \in TxIds :
       transactions[t].status # "none"
         => (transactions[t].requires_stepup <=> transactions[t].amount >= 15001)
  /\ (last.h = "transactions" /\ last.outcome = "ok")
       => (last.requiresStepUp <=> transactions[last.tx].amount >= 15001)

ThresholdBoundaryWitness ==
  \E t, u \in TxIds :
    /\ transactions[t].status # "none" /\ transactions[t].amount = 15000
    /\ ~transactions[t].requires_stepup
    /\ transactions[u].status # "none" /\ transactions[u].amount = 15001
    /\ transactions[u].requires_stepup

(* C6: a successful verifyStepUp leaves the transaction completed with     *)
(* stepup_completed set, and adds exactly one to the completed counter.    *)
StepUpSuccessEffect ==
  [][(last'.h = "stepup" /\ last'.outcome = "ok")
       => /\ transactions'[last'.tx].status = "completed"
          /\ transactions'[last'.tx].stepup_completed
          /\ analytics'.completed = analytics.completed + 1]_vars

(* C7: a request whose OTP belongs to another transaction than the one it  *)
(* names is answered "Transaction ID mismatch" and changes no transaction  *)
(* and no counter; a step-up transaction is modified only after its own    *)
(* OTP was presented for it.                                               *)
OtpBoundToTransaction ==
  [][/\ (/\ last'.h = "stepup" /\ last'.arrival
         /\ challenges[last'.key].type = "stepup"
         /\ challenges[last'.key].tx # last'.tx)
          => /\ last'.outcome = "Transaction ID mismatch"
             /\ transactions' = transactions
             /\ analytics' = analytics
     /\ \A t \in TxIds :
          (/\ transactions[t].status # "none"
           /\ transactions[t].requires_stepup
           /\ transactions'[t] # transactions[t])
            => t \in stepUpVerified']_vars

OtpBoundToTransactionWitness ==
  /\ last.h = "stepup"
  /\ last.outcome = "Transaction ID mismatch"
  /\ transactions[last.tx].status = "pending"
  /\ challenges[last.key].tx # last.tx

----------------------------------------------------------------------------
(* Properties of the challenge store and of the ceremonies *)

Completions == RegistrationCompletions \cup LoginCompletions \cup {"stepup"}

(* C1: with requests handled one at a time, every issued challenge         *)
(* (registration, authentication or step-up) is completed successfully at  *)
(* most once, and a completion call that presents it after a successful    *)
(* one is answered with a ChallengeInvalid error.                          *)
SingleUse ==
  /\ \A i \in Idents : okCount[i] <= 1
  /\ (last.h \in Completions /\ last.late) => last.outcome \in ChallengeInvalid

SingleUseWitness ==
  /\ last.h \in LoginCompletions
  /\ last.late
  /\ last.outcome \in ChallengeInvalid
  /\ \E c \in ChallengeValues : c # last.key /\ okCount[c] = 1

(* C3: a completion call that presents a challenge of any kind later than  *)
(* its issue time plus the time-to-live does not succeed.                  *)
NoCompletionAfterTtl == (last.h \in Completions /\ last.stale) => last.outcome # "ok"

(* C8: when the verifier accepts an assertion and reports a counter that   *)
(* is not greater than the stored counter of the credential, the login     *)
(* handler does not go on to success and leaves the stored counter alone.  *)
CounterRegressionFails ==
  [][(/\ last'.h \in LoginCompletions
      /\ last'.reported
      /\ last'.newCounter <= creds[last'.cred].counter)
       => (last'.outcome \notin {"ok", "verified"} /\ creds' = creds)]_vars

(* C10: with requests handled one at a time, a successful registration     *)
(* start has added one to the started counter since its request arrived,   *)
(* and a successful registration completion has added one to the completed *)
(* counter and one active credential to the identity of the challenge.     *)
RegistrationRoundTrip ==
  /\ (last.h \in RegistrationStarts /\ last.outcome = "ok")
       => analytics.started = last.started0 + 1
  /\ (last.h \in RegistrationCompletions /\ last.outcome = "ok")
       => /\ analytics.completed_signup = last.completed0 + 1
          /\ ActiveCreds(last.uid) = last.creds0 + 1

----------------------------------------------------------------------------
(* Properties of the client *)

(* C9: when a register or authenticate call that made a fallback attempt   *)
(* has returned or thrown, the stored preference is the one that was       *)
(* stored before the call.                                                 *)
PreferenceRestored ==
  (client.pc \in {"returned", "threw"} /\ client.usedFallback) => localStorage = client.before

----------------------------------------------------------------------------
(* Properties of the ceremonies when the verification fails *)

(* The error messages that the taxonomy groups under CeremonyFailed. *)
CeremonyFailed == {"Registration verification failed", "Authentication verification failed"}

(* C11: when the verifier resolves with verified = false for a             *)
(* registration response, the handler answers with a CeremonyFailed error, *)
(* stores no credential and leaves the completed-registration counter as   *)
(* it was.                                                                 *)
RegistrationFailureNoEffect ==
  [][(last'.h \in RegistrationCompletions /\ last'.verdict = "rejected")
       => /\ last'.outcome \in CeremonyFailed
          /\ creds' = creds
          /\ analytics'.completed_signup = analytics.completed_signup]_vars

RegistrationFailureNoEffectWitness ==
  /\ last.h = "register/complete"
  /\ last.verdict = "rejected"
  /\ last.outcome \in CeremonyFailed
  /\ ActiveCreds(last.uid) = 0

(* A ceremony is in state Issued while a completion call that presents    *)
(* its challenge passes the challenge test: the Map holds an entry under   *)
(* the value, or the table holds an unused, unexpired row for it.          *)
Issued(key) ==
  \/ challenges[key].type # "none"
  \/ /\ authChallenges[key].type # "none"
     /\ ~authChallenges[key].is_used
     /\ authChallenges[key].expires_at > now

ResponseChallengeIssued == last.key \in ChallengeValues /\ Issued(last.key)

(* C12: when a completion call presented a valid challenge and is answered *)
(* with a failed verification or with "Credential not found", the ceremony *)
(* has left the state Issued: a later call that presents the same          *)
(* challenge cannot pass the challenge test.                               *)
ConsumedOnFailure ==
  [][(/\ last'.h \in RegistrationCompletions \cup LoginCompletions
      /\ (last'.verdict = "rejected" \/ last'.outcome = "Credential not found"))
       => ~ResponseChallengeIssued']_vars

(* What each completion handler answers when the challenge presented is   *)
(* not in the store.                                                       *)
NotFoundError(h) ==
  CASE h \in {"register/verify", "login/verify"} -> "Invalid challenge"
    [] h = "stepup" -> "Invalid OTP"
    [] OTHER -> "Invalid or expired challenge"

(* C13: a completion call that is refused because its challenge is not     *)
(* found, of the wrong kind, expired or already consumed gets the answer   *)
(* the handler gives for a challenge that is not found, whichever of the   *)
(* four reasons applies.                                                   *)
UndifferentiatedFailure ==
  (last.h \in Completions /\ last.reason # "none" /\ last.outcome \in ChallengeInvalid)
    => last.outcome = NotFoundError(last.h)

----------------------------------------------------------------------------
(* Properties of submission below the threshold *)

(* C14: when submission answers for an amount of at most 150.00, the       *)
(* transaction is completed, the transaction object in the response has    *)
(* status completed, no step-up is asked for, no challenge is stored and    *)
(* the triggered counter is left as it was.                                *)
BelowThresholdFinalized ==
  [][(/\ last'.h = "transactions" /\ last'.outcome = "ok"
      /\ transactions'[last'.tx].amount <= 15000)
       => /\ transactions'[last'.tx].status = "completed"
          /\ last'.status = "completed"
          /\ ~last'.requiresStepUp
          /\ challenges' = challenges
          /\ analytics'.triggered = analytics.triggered]_vars

----------------------------------------------------------------------------
(* Properties of the credential repository *)

(* C15: when the verifier accepts an assertion and the login handler goes  *)
(* on to success, the stored counter of the credential used is the counter *)
(* the verifier reported and its last_used_at is the time of the update.   *)
CounterUpdatedOnSuccess ==
  [][(/\ last'.h \in LoginCompletions
      /\ last'.outcome \in {"ok", "verified"}
      /\ last'.reported)
       => /\ creds'[last'.cred].counter = last'.newCounter
          /\ creds'[last'.cred].last_used_at = now]_vars

(* C16: the stored signature counter of a credential never decreases,    *)
(* however the read, verify and write steps of sign-ins interleave, with a *)
(* verifier that accepts only a counter above the one it was given.        *)
MonotonicCounter ==
  [][\A k \in CredIds : creds'[k].counter >= creds[k].counter]_vars

(* The credential id names no stored credential, or a deactivated one. *)
CredentialAbsent(k) == creds[k].user_id = 0 \/ ~creds[k].is_active

(* The sign-in requests that are past the credential lookup (the verifier  *)
(* is asked, then the counter is written) name a stored, active credential. *)
PastLookupStored ==
  \A r \in InFlight :
    (r.h \in LoginCompletions /\ r.pc \in {"found", "updated"}) => ~CredentialAbsent(r.cred)

(* C17: with requests handled one at a time, a sign-in completion whose    *)
(* challenge is valid and whose credential id is not stored or is          *)
(* deactivated is answered "Credential not found" and changes no           *)
(* credential; it never gets to the verifier, the counter update or the    *)
(* token.                                                                  *)
CredentialNotFoundFails ==
  [][/\ (/\ last'.h \in LoginCompletions
         /\ last'.cred \in CredIds
         /\ CredentialAbsent(last'.cred)
         /\ last'.outcome \notin ChallengeInvalid \cup {"accepted"})
          => (last'.outcome = "Credential not found" /\ creds' = creds)
     /\ PastLookupStored']_vars

CredentialNotFoundWitness ==
  /\ last.h = "login/complete"
  /\ last.outcome = "Credential not found"
  /\ creds[last.cred].user_id # 0
  /\ ~creds[last.cred].is_active

(* The table of fallback methods, read off the available methods. *)
FallbackOf(primaryMethod) ==
  CASE primaryMethod = "device" -> "pin"
    [] primaryMethod = "pin" -> IF "device" \in capabilities.availableMethods THEN "device" ELSE Null
    [] OTHER -> Null

(* C18: in every capability state getFallbackMethod('device') is 'pin',    *)
(* getFallbackMethod('pin') is 'device' exactly when 'device' is among the *)
(* available methods and none otherwise, getFallbackMethod('both') is      *)
(* none; and the fallback method a failed first attempt computed is the    *)
(* table's entry for the preference it was computed from.                  *)
FallbackTable ==
  /\ \A m \in Methods : GetFallbackMethod(m) = FallbackOf(m)
  /\ client.primary = "failed" => client.fallbackMethod = FallbackOf(client.originalPreference)

FallbackTableWitness ==
  /\ client.primary = "failed"
  /\ client.originalPreference = "pin"
  /\ client.fallbackMethod = "device"
  /\ "device" \in capabilities.availableMethods

(* C19: after a detectCapabilities that ran to its end, 'device' is      *)
(* among the available methods exactly when the platform authenticator     *)
(* probe answered available, 'pin' exactly when the ceremony API exists,   *)
(* and 'both' exactly when 'device' and 'pin' both are.                    *)
AvailableMethodsDerivation ==
  client.detected =>
    /\ "device" \in capabilities.availableMethods <=> (client.api /\ client.probe = "available")
    /\ "pin" \in capabilities.availableMethods <=> client.api
    /\ "both" \in capabilities.availableMethods
         <=> ("device" \in capabilities.availableMethods /\ "pin" \in capabilities.availableMethods)

NoFallbackSurfacesOriginal ==
  (client.pc = "threw" /\ client.primary = "failed" /\ client.fallback = "none")
    => client.error = client.originalError

(* The message m has the message part as a piece of it. *)
Mentions(m, part) ==
  \E i \in 0..(Len(m) - Len(part)) : SubSeq(m, i + 1, i + Len(part)) = part

(* C22: when the first attempt and the fallback attempt of a call both      *)
(* fail, the message of the error the call throws names the failure of the *)
(* first attempt and the failure of the fallback attempt.                  *)
ComposedError ==
  (client.pc = "threw" /\ client.primary = "failed" /\ client.fallback = "failed")
    => /\ Mentions(client.error.message, client.originalError.message)
       /\ Mentions(client.error.message, client.fallbackError.message)

(* The step-up transactions whose handler has passed its triggered++. *)
StepUpTriggered ==
  {t \in TxIds : /\ transactions[t].requires_stepup
                 /\ ~\E r \in InFlight : r.h = "transactions" /\ r.pc = "created" /\ r.tx = t}

(* The successful step-up responses sent for the transactions 1..n. *)
RECURSIVE StepUpSuccesses(_)
StepUpSuccesses(n) == IF n = 0 THEN 0 ELSE okCount[StepUpIdent(n)] + StepUpSuccesses(n - 1)

(* C23: whatever the interleaving of the handlers, a funnel counter has    *)
(* grown by exactly the number of increment operations made on it:         *)
(* stepUpAuth.triggered counts every step-up transaction whose handler     *)
(* reached the increment, stepUpAuth.completed every successful step-up    *)
(* response; no increment is lost.                                         *)
NoLostUpdates ==
  /\ analytics.triggered = Cardinality(StepUpTriggered)
  /\ analytics.completed = StepUpSuccesses(MaxTx)

(* Two submissions are in flight together; the later one has made its     *)
(* increment while the earlier one still waits before its own.             *)
NoLostUpdatesWitness ==
  /\ server = "database"
  /\ analytics.triggered = 1
  /\ transactions[1].requires_stepup
  /\ transactions[2].requires_stepup
  /\ \E r \in InFlight : r.h = "transactions" /\ r.pc = "created" /\ r.tx = 1

(* completed / started as a fraction, 0 when nothing was started. *)
RateOf(completed, started) == IF started = 0 THEN <<0, 1>> ELSE <<completed, started>>

(* The percentage q is the fraction r. *)
PercentIs(q, r) == q[2] # 0 /\ q[1] * r[2] = 100 * r[1] * q[2]

NoLiveOtp(t) ==
  \A o \in Otps : ~(challenges[o].type = "stepup" /\ challenges[o].tx = t /\ now <= challenges[o].expiry)

(* The OTP issued for t is gone or past its expiry, and no step-up call    *)
(* presented it while it was valid.                                        *)
ExpiredUnverified(t) ==
  /\ t \in StepUpTriggered
  /\ transactions[t].status = "pending"
  /\ t \notin stepUpVerified
  /\ NoLiveOtp(t)

(* C25: a transaction whose step-up OTP expired before any successful      *)
(* step-up call stays pending from then on: no step completes it, gives it *)
(* another status, or stores a new OTP for it.                             *)
PendingForever ==
  [][\A t \in TxIds : ExpiredUnverified(t) => ExpiredUnverified(t)']_vars

(* A step-up call for such a transaction has just been refused. *)
PendingForeverWitness ==
  /\ last.h = "stepup"
  /\ last.outcome = "OTP expired"
  /\ last.tx \in TxIds
  /\ ExpiredUnverified(last.tx)

(* C26: once a transaction exists its requires_stepup never changes, and   *)
(* its status changes only from pending to completed: a completed          *)
(* transaction never becomes pending again and no step gives a transaction *)
(* any other status, failed included.                                      *)
TransactionInvariants ==
  [][\A t \in TxIds : transactions[t].status # "none" =>
       /\ transactions'[t].requires_stepup = transactions[t].requires_stepup
       /\ \/ transactions'[t].status = transactions[t].status
          \/ transactions[t].status = "pending" /\ transactions'[t].status = "completed"]_vars

(* A step-up transaction has been completed by a verified OTP. *)
TransactionInvariantsWitness ==
  /\ last.h = "stepup"
  /\ last.outcome = "ok"
  /\ last.tx \in TxIds
  /\ transactions[last.tx].status = "completed"
  /\ transactions[last.tx].requires_stepup

(* A challenge that is stored and not past its expiry. *)
Live(c) == c.type # "none" /\ ~Expired(c)

(* C27: a challenge value that is issued, the OTP of a step-up challenge   *)
(* included, differs from the value of every live challenge: while a       *)
(* challenge is live, the entry under its value is never replaced by       *)
(* another one, it can only be removed; so a pending step-up transaction   *)
(* keeps the OTP that completes it until that OTP expires or is used.      *)
UniqueLiveChallenges ==
  [][\A k \in Keys : Live(challenges[k]) =>
       (challenges'[k] = challenges[k] \/ challenges'[k] = NoChallenge)]_vars

(* C28: the options a registration gets back from its begin request are    *)
(* platform-only when the method the client sent is device, cross-platform *)
(* only when it is pin, and unconstrained when it is both.                 *)
AttachmentConstraint ==
  (client.op = "register" /\ client.pc \in {"primary", "fallback"}) =>
    client.attachment = (CASE client.method = "device" -> "platform"
                           [] client.method = "pin" -> "cross-platform"
                           [] OTHER -> "undefined")

(* C29: a detection that finds no ceremony API leaves every capability     *)
(* flag false, whatever was stored before.                                 *)
ApiAbsentAllFalse ==
  (client.detected /\ ~client.api) =>
    /\ ~capabilities.webauthnSupported
    /\ ~capabilities.platformAuthenticator
    /\ ~capabilities.userVerification
    /\ ~capabilities.secureContext
    /\ ~capabilities.httpsOrLocalhost

(* C30: after a detection in which a probe threw, the capabilities offer   *)
(* no method, also when an earlier detection had found some.               *)
DetectionFailureNoModality ==
  (client.api /\ client.probe = "rejects") => capabilities.availableMethods = {}

(* C31: a step-up call consumes the challenge under the OTP before it      *)
(* compares the transaction id: once a call has failed with a transaction  *)
(* id mismatch, the OTP it presented is no stored challenge any more, so   *)
(* that a second call with the same OTP is refused as an invalid OTP even  *)
(* with the right transaction id.                                          *)
ConsumeBeforeCompare ==
  [][(last'.h = "stepup" /\ last'.outcome = "Transaction ID mismatch")
       => challenges'[last'.key].type = "none"]_vars

(* C32: a call makes a fallback attempt only when its first attempt failed *)
(* in the ceremony itself or in its completion; a first attempt that       *)
(* failed at the begin request is surfaced without a second ceremony.      *)
FallbackOnlyOnCeremonyFailure ==
  client.fallback # "none" =>
    client.originalError \in {ErrorOf("ceremony throws"), ErrorOf("complete fails")}

(* The challenge issued at time c under the key k is in the store. *)
Stored(k, c) == challenges[k].type # "none" /\ challenges[k].createdAt = c

(* C33: every challenge that is stored and never completed is removed      *)
(* from the store in the end by a clean-up run: a challenge issued early   *)
(* enough for its lifetime to pass is gone at some later time.             *)
AbandonedReclaimed ==
  \A k \in Keys : \A c \in 0..MaxTime :
    [](( Stored(k, c) /\ c + ChallengeTtl < MaxTime) => <>~Stored(k, c))

(* C34: a request that begins a registration is answered with options and  *)
(* a registration challenge whether or not the identity has a record       *)
(* already; in particular an earlier registration that was abandoned or    *)
(* failed does not make a later one fail.                                  *)
BeginRegistrationResolves ==
  (last.h \in {"register/options", "register/begin"} /\ last.outcome # "accepted")
    => last.outcome = "ok"

(* C35: a sign-in that succeeds with a challenge issued for the identity U *)
(* presented a credential U owns, and its token is U's: a credential of    *)
(* another user is refused and gets no token for that user.                *)
ScopeEnforced ==
  (last.h \in LoginCompletions /\ last.outcome = "ok" /\ last.uid # 0)
    => (creds[last.cred].user_id = last.uid /\ last.token = last.uid)

(* C36: a success response that carries a token was sent by a completion  *)
(* handler for a request that presented a stored, unconsumed challenge of  *)
(* the kind the handler completes, and whose response the verifier found   *)
(* verified.                                                               *)
NoTokenWithoutCeremony ==
  last.token # 0 =>
    /\ last.h \in RegistrationCompletions \cup LoginCompletions
    /\ last.outcome = "ok"
    /\ last.reason \in {"none", "expired"}
    /\ last.verdict = "verified"

(* A sign-in on the database server has been answered with a token. *)
NoTokenWithoutCeremonyWitness ==
  /\ server = "database"
  /\ last.h = "login/complete"
  /\ last.token # 0
  /\ last.verdict = "verified"

(* C37: the step-up counters stay consistent under every interleaving:     *)
(* completed never exceeds triggered, and triggered is the number of       *)
(* transactions created with requires_stepup true.                         *)
StepUpCountersConsistent ==
  /\ analytics.completed <= analytics.triggered
  /\ analytics.triggered = Cardinality({t \in TxIds : transactions[t].requires_stepup})

(* C38: the passkey signups completed never exceed the passkey signups     *)
(* started, also when requests that present the same challenge are in      *)
(* flight together.                                                        *)
FunnelConsistent == analytics.completed_signup <= analytics.started

(* C39: the method of a fallback attempt of authenticate differs from the  *)
(* method its first attempt used, also when the caller named a method      *)
(* other than the stored preference.                                       *)
FallbackDiffers ==
  (client.op = "authenticate" /\ client.fallback # "none")
    => client.fallbackMethod # client.primaryMethod

====
